---- MODULE Spec2Model ----
(***************************************************************************)
(* rprof: an in-process profiler of io.Reader reads.  The model covers    *)
(* the accumulator (Rprof: Start, Stop, recordSample under its mutex),    *)
(* the size bucketing (nextPowerOfTwo) and the profile builder            *)
(* (newProfileBuilder, addMapping, addMappingEntry, addString, build).    *)
(*                                                                         *)
(* Go's int, int64, uint64 and uintptr values are 64-bit words.  A word   *)
(* is modelled as the set of the positions of its one-bits (bit 63 is the *)
(* sign bit of the signed types), so that shifts, wrap-around additions   *)
(* and comparisons are those of the machine.  Timestamps, table ids and   *)
(* string-table indexes stay far from 2^63 and are plain naturals.        *)
(***************************************************************************)
EXTENDS Integers, Sequences, FiniteSets, Bags, TLC

VARIABLES
    mu,              \* Rprof.mu: 0 when unlocked, else the goroutine holding it
    startTime,       \* Rprof.startTime (0 = profiler not started)
    samples,         \* Rprof.samples: reference into heap (0 = nil map)
    heap,            \* the maps allocated so far: heap[r] is map[sampleKey][2]int64
    now,             \* the value time.Now().UnixNano() returned last
    procMappings,    \* the memory mappings of the process, as readMapping finds them
    pc,              \* per goroutine: where it is in its current call
    size,            \* per goroutine: recordSample's argument
    stack,           \* per goroutine: the stack runtime.Callers captures for it
    sizeBucketPower, \* per goroutine: recordSample's local
    ts,              \* per goroutine: Stop's local ts
    snap,            \* per goroutine: Stop's local samples (a map reference)
    ret,             \* what the step just taken returned, NoReturn if it was no return
    app,             \* what the program does: how many calls of each kind, which reads
    calls,           \* number of calls made so far, per operation
    opened,          \* history: the start times of the windows opened so far
    log,             \* history: the bag of the recordSample calls that returned
    profiles,        \* history: the profiles Stop returned, in order
    stopSeen,        \* history, per goroutine: log as it was when its Stop call began
    invWin,          \* history, per goroutine: window open when its record call began
    builder,         \* the profile newProfileBuilder is filling, as a sequence (empty when none)
    powInput,        \* nextPowerOfTwo's argument (bucketing specification)
    power            \* nextPowerOfTwo's result, as a sequence (empty before the call)

vars == <<mu, startTime, samples, heap, now, procMappings, pc, size, stack,
          sizeBucketPower, ts, snap, ret, app, calls, opened, log, profiles,
          stopSeen, invWin, builder, powInput, power>>

----------------------------------------------------------------------------
\* Bounds of the model.

NumProcs == 3
MaxStarts == 2
MaxStops == 2
MaxRecords == 2
MaxBurst == 3
MaxSmallSize == 40

Procs == 1..NumProcs

----------------------------------------------------------------------------
\* 64-bit words as sets of bit positions.

\* The word of a natural number below 2^31.
W(n) == {j \in 0..30 : (n \div (2^j)) % 2 = 1}

\* Unsigned a < b: the highest bit in which they differ is set in b.
ULess(a, b) == \E j \in b \ a : \A k \in a \ b : k < j

\* Signed a >= b (int, int64).
SGeq(a, b) ==
    IF (63 \in a) # (63 \in b) THEN 63 \in b ELSE ~ULess(a, b)

\* The carry into bit j of a + b: some lower bit k generates one (it is set
\* in both) and every bit between k and j passes it on (it is set in one).
Carry(a, b, j) ==
    \E k \in 0..(j - 1) :
        /\ k \in a \cap b
        /\ \A m \in (k + 1)..(j - 1) : m \in a \cup b

\* a + b on int64, wrapping.
Add(a, b) ==
    {j \in 0..63 : ((j \in a) # (j \in b)) # Carry(a, b, j)}

\* 1 << n: a shift count of 64 or more yields 0.
Shl1(n) == IF n < 64 THEN {n} ELSE {}

----------------------------------------------------------------------------
\* nextPowerOfTwo

RECURSIVE nextPowerOfTwoLoop(_, _)
nextPowerOfTwoLoop(input, i) ==
    IF i < 63
    THEN IF SGeq(Shl1(i), input) THEN i ELSE nextPowerOfTwoLoop(input, i + 1)
    ELSE 63

RECURSIVE nextPowerOfTwoStrictLoop(_, _)
nextPowerOfTwoStrictLoop(input, i) ==
    IF i < 63
    THEN IF SGeq(Shl1(i), input) /\ Shl1(i) # input THEN i
         ELSE nextPowerOfTwoStrictLoop(input, i + 1)
    ELSE 63

\* Mutant: the loop compares with > instead of >=.
nextPowerOfTwoStrict(input) == nextPowerOfTwoStrictLoop(input, 0)

nextPowerOfTwo(input) == nextPowerOfTwoLoop(input, 0)

\* power before the call; after it, power is <<the value returned>>.
NoResult == <<>>

\* Sizes the bucketing specification draws from: the small sizes, the sizes
\* the accumulator scenarios use, every power of two with its neighbours,
\* the largest int, and two negative values.
PowInputs ==
    {W(n) : n \in 0..MaxSmallSize}
    \cup {W(100), W(200), W(256), W(257), W(4096), W(5000)}
    \cup {{k} : k \in 1..62}
    \cup {{k, 0} : k \in 1..62}
    \cup {0..(k - 1) : k \in 1..63}
    \cup {{63}, 0..63}

----------------------------------------------------------------------------
\* Data of the accumulator.

\* The slots of sampleKey.locations: 128 in the source, scaled down here.
StackCap == 4

ULeq(a, b) == a = b \/ ULess(a, b)

\* runtime.Callers(3, locations[:]) into a zeroed [128]uintptr: the captured
\* frames fill the first slots, the rest stay zero.
Callers(st) ==
    LET numRead == IF Len(st) < StackCap THEN Len(st) ELSE StackCap
    IN  [locations |-> [j \in 1..StackCap |-> IF j <= numRead THEN st[j] ELSE {}],
         numRead |-> numRead]

\* Mutant: the key leaves the size bucket out.
sampleKeyWithoutBucket(st, bucket) ==
    [locations |-> Callers(st).locations,
     sizeBucketPower |-> 0,
     numLocations |-> Callers(st).numRead]

sampleKey(st, bucket) ==
    [locations |-> Callers(st).locations,
     sizeBucketPower |-> bucket,
     numLocations |-> Callers(st).numRead]

EmptyMap == [k \in {} |-> <<{}, {}>>]

\* m[k] on a Go map: the zero value when k is absent.
Lookup(m, k) == IF k \in DOMAIN m THEN m[k] ELSE <<{}, {}>>

\* The map behind reference r, for reading: a nil map reads as an empty one.
Deref(hp, r) == IF r = 0 THEN EmptyMap ELSE hp[r]

\* m[k] = v on a Go map.
Store(m, k, v) == [x \in DOMAIN m \cup {k} |-> IF x = k THEN v ELSE m[x]]

----------------------------------------------------------------------------
\* The profile builder.

newProfile(timestampNanos, durationNanos) ==
    [StringTable |-> <<"", "reads", "count", "read", "bytes">>,
     DurationNanos |-> durationNanos,
     TimeNanos |-> timestampNanos,
     Period |-> 1,
     PeriodType |-> [Type |-> 1, Unit |-> 2],
     SampleType |-> <<[Type |-> 1, Unit |-> 2], [Type |-> 3, Unit |-> 4]>>,
     Mapping |-> <<>>,
     Location |-> <<>>,
     Sample |-> <<>>]

\* Mutant: addString returns the length of the table, not the last index.
addStringLength(p, s) ==
    [p |-> [p EXCEPT !.StringTable = Append(@, s)],
     idx |-> Len(p.StringTable) + 1]

\* Mutant: addString returns the index s already has, when it has one.
addStringDedup(p, s) ==
    IF \E n \in DOMAIN p.StringTable : p.StringTable[n] = s
    THEN [p |-> p, idx |-> (CHOOSE n \in DOMAIN p.StringTable : p.StringTable[n] = s) - 1]
    ELSE [p |-> [p EXCEPT !.StringTable = Append(@, s)],
          idx |-> (Len(p.StringTable) + 1) - 1]

\* addString: the profile with s appended, and the (0-based) index of s.
addString(p, s) ==
    [p |-> [p EXCEPT !.StringTable = Append(@, s)],
     idx |-> (Len(p.StringTable) + 1) - 1]

addMappingEntry(p, lo, hi, offset, file, buildID, fake) ==
    LET nextIdx == Len(p.Mapping) + 1
    IN  IF fake
        THEN [p EXCEPT !.Mapping = Append(@,
                [Id |-> nextIdx, MemoryStart |-> {}, MemoryLimit |-> Shl1(63),
                 FileOffset |-> {}, Filename |-> 0, BuildId |-> 0])]
        ELSE LET f == addString(p, file)
                 g == addString(f.p, buildID)
             IN  [g.p EXCEPT !.Mapping = Append(@,
                    [Id |-> nextIdx, MemoryStart |-> lo, MemoryLimit |-> hi,
                     FileOffset |-> offset, Filename |-> f.idx, BuildId |-> g.idx])]

addMapping(p, lo, hi, offset, file, buildID) ==
    addMappingEntry(p, lo, hi, offset, file, buildID, FALSE)

RECURSIVE readMappingFrom(_, _, _)
readMappingFrom(p, found, n) ==
    IF n > Len(found) THEN p
    ELSE readMappingFrom(
            addMapping(p, found[n].lo, found[n].hi, found[n].offset,
                       found[n].file, found[n].buildID),
            found, n + 1)

\* readMapping: one mapping per known code region; the synthetic mapping
\* when none is known.
readMapping(p, found) ==
    IF Len(found) = 0
    THEN addMappingEntry(p, {}, {}, {}, "", "", TRUE)
    ELSE readMappingFrom(p, found, 1)

newProfileBuilder(timestampNanos, durationNanos, found) ==
    readMapping(newProfile(timestampNanos, durationNanos), found)

\* Mutant: the scan takes MemoryLimit as part of the mapping.
RECURSIVE findMappingInclusive(_, _, _)
findMappingInclusive(Mapping, addr, i) ==
    IF i < Len(Mapping)
    THEN IF ULeq(Mapping[i + 1].MemoryStart, addr)
            /\ ULeq(addr, Mapping[i + 1].MemoryLimit)
         THEN i + 1
         ELSE findMappingInclusive(Mapping, addr, i + 1)
    ELSE 0

\* build's scan of the mapping table for addr, from (0-based) index i.
RECURSIVE findMapping(_, _, _)
findMapping(Mapping, addr, i) ==
    IF i < Len(Mapping)
    THEN IF ULeq(Mapping[i + 1].MemoryStart, addr)
            /\ ULess(addr, Mapping[i + 1].MemoryLimit)
         THEN i + 1
         ELSE findMapping(Mapping, addr, i + 1)
    ELSE 0

\* Mutant: every slot visited makes a new location.
visitLocationAlwaysNew(b, loc) ==
    LET idx == Len(b.p.Location) + 1
        mappingId == findMapping(b.p.Mapping, loc, 0)
    IN  [p |-> [b.p EXCEPT !.Location = Append(@,
                   [Id |-> idx, MappingIndex |-> mappingId, Address |-> loc])],
         locIdx |-> Store(b.locIdx, loc, idx),
         locs |-> Append(b.locs, idx)]

\* One iteration of build's inner loop; b = [p, locIdx, locs].
visitLocation(b, loc) ==
    IF loc \in DOMAIN b.locIdx
    THEN [b EXCEPT !.locs = Append(@, b.locIdx[loc])]
    ELSE LET idx == Cardinality(DOMAIN b.locIdx) + 1
             mappingId == findMapping(b.p.Mapping, loc, 0)
         IN  [p |-> [b.p EXCEPT !.Location = Append(@,
                        [Id |-> idx, MappingIndex |-> mappingId, Address |-> loc])],
              locIdx |-> Store(b.locIdx, loc, idx),
              locs |-> Append(b.locs, idx)]

\* The slots of the key that build's inner loop ranges over.
visitedSlots(key) == 1..Len(key.locations)

RECURSIVE visitLocations(_, _, _)
visitLocations(b, key, j) ==
    IF j \in visitedSlots(key)
    THEN visitLocations(visitLocation(b, key.locations[j]), key, j + 1)
    ELSE b

\* One iteration of build's outer loop.
addSample(b, key, sampleValue) ==
    LET c == visitLocations([b EXCEPT !.locs = <<>>], key, 1)
    IN  [c EXCEPT !.p.Sample = Append(@,
            [LocationIndex |-> c.locs,
             Value |-> sampleValue,
             Label |-> <<[Key |-> 4, Num |-> Shl1(key.sizeBucketPower)]>>])]

RECURSIVE buildLoop(_, _, _, _)
buildLoop(b, m, order, n) ==
    IF n > Len(order) THEN b
    ELSE buildLoop(addSample(b, order[n], m[order[n]]), m, order, n + 1)

\* build(samples), ranging over the map in the given order.
build(p, m, order) ==
    buildLoop([p |-> [p EXCEPT !.Sample = <<>>], locIdx |-> EmptyMap, locs |-> <<>>],
              m, order, 1).p

\* The orders in which a range over a map with key set S may visit it.
Orders(S) ==
    {o \in [1..Cardinality(S) -> S] : \A i, j \in 1..Cardinality(S) : i # j => o[i] # o[j]}

----------------------------------------------------------------------------
\* Inputs of the accumulator specification.

\* Stacks the read adapters are called from (innermost frame first).
StackA == <<W(16), W(32)>>
StackB == <<W(32)>>

\* What the program around the profiler does: how many times it calls each
\* operation, and the reads it makes through the adapters (the stack of the
\* Read call and the byte count it returns).  Either it opens and closes
\* windows repeatedly around page-sized reads from two call sites, or it
\* opens one window around a burst of reads of several sizes.
Apps ==
    {[Start |-> MaxStarts, Stop |-> MaxStops, recordSample |-> MaxRecords,
      reads |-> {<<StackA, W(4096)>>, <<StackB, W(4096)>>}],
     [Start |-> 1, Stop |-> 1, recordSample |-> MaxBurst,
      reads |-> {<<StackA, W(100)>>, <<StackA, W(200)>>, <<StackA, W(5000)>>}]}

\* What readMapping may find in the process.
TextMapping == [lo |-> W(16), hi |-> W(32), offset |-> {}, file |-> "app", buildID |-> ""]

----------------------------------------------------------------------------
\* The accumulator: Start, Stop and recordSample of Rprof.

Return(g, op, err, prof) == [g |-> g, op |-> op, err |-> err, prof |-> prof]

NoReturn == Return(0, "none", "nil", 0)

\* Goroutines are interchangeable: a new call is made by the idle goroutine
\* with the lowest number.
CanCall(g) == pc[g] = "idle" /\ \A h \in Procs : h < g => pc[h] # "idle"

\* The window open now, windows being numbered from 1 as they are opened:
\* 0 when the profiler is off.
Window == IF startTime # 0 THEN Len(opened) ELSE 0

\* The window that was opened at time t.
WindowOf(t) == CHOOSE n \in DOMAIN opened : opened[n] = t

\* NewProfiler(): &Rprof{}, no call made yet, the clock not read yet.
Fresh ==
    /\ mu = 0
    /\ startTime = 0
    /\ samples = 0
    /\ heap = <<>>
    /\ now = 0
    /\ pc = [p \in Procs |-> "idle"]
    /\ size = [p \in Procs |-> {}]
    /\ stack = [p \in Procs |-> <<>>]
    /\ sizeBucketPower = [p \in Procs |-> 0]
    /\ ts = [p \in Procs |-> 0]
    /\ snap = [p \in Procs |-> 0]
    /\ ret = NoReturn
    /\ calls = [Start |-> 0, Stop |-> 0, recordSample |-> 0]
    /\ opened = <<>>
    /\ log = EmptyBag
    /\ profiles = <<>>
    /\ stopSeen = [p \in Procs |-> EmptyBag]
    /\ invWin = [p \in Procs |-> 0]
    /\ builder = <<>>

Init ==
    /\ Fresh
    /\ app \in Apps
    /\ procMappings = <<TextMapping>>
    /\ powInput = {}
    /\ power = NoResult

\* time.Now().UnixNano(): a value later than the one read last.
TimeNow == now + 1

\* p.mu.Lock() of the call goroutine g is in, leading to pc value next.
Lock(g, at, next) ==
    /\ pc[g] = at
    /\ mu = 0
    /\ mu' = g
    /\ pc' = [pc EXCEPT ![g] = next]
    /\ ret' = NoReturn
    /\ UNCHANGED <<startTime, samples, heap, now, procMappings, app, size, stack,
                   sizeBucketPower, ts, snap, calls, opened, log, profiles, stopSeen,
                   invWin, builder, powInput, power>>

\* p.mu.Unlock(): deferred in Start and recordSample, and Stop's second.
Unlock == mu' = 0

\* ---- Start

StartCall(g) ==
    /\ CanCall(g)
    /\ calls.Start < app.Start
    /\ calls' = [calls EXCEPT !.Start = @ + 1]
    /\ pc' = [pc EXCEPT ![g] = "Start:Lock"]
    /\ ret' = NoReturn
    /\ UNCHANGED <<mu, startTime, samples, heap, now, procMappings, app, size, stack,
                   sizeBucketPower, ts, snap, opened, log, profiles, stopSeen,
                   invWin, builder, powInput, power>>

StartLock(g) == Lock(g, "Start:Lock", "Start:Locked")

\* Mutant: Start does not test startTime.
StartAlreadyStartedIgnored == FALSE

\* Start's test "p.startTime != 0".
StartAlreadyStarted == startTime # 0

\* Mutant: Start keeps the map it has, if any.
StartKeepsMap ==
    IF samples = 0
    THEN /\ heap' = Append(heap, EmptyMap)
         /\ samples' = Len(heap) + 1
    ELSE /\ heap' = heap
         /\ samples' = samples

\* Start's "p.samples = map[sampleKey][2]int64{}".
StartInstallsMap ==
    /\ heap' = Append(heap, EmptyMap)
    /\ samples' = Len(heap) + 1

\* Start's body, with the deferred Unlock.
StartLocked(g) ==
    /\ pc[g] = "Start:Locked"
    /\ IF StartAlreadyStarted
       THEN /\ ret' = Return(g, "Start", "profiler already started", 0)
            /\ UNCHANGED <<startTime, samples, heap, now, opened>>
       ELSE /\ now' = TimeNow
            /\ startTime' = TimeNow
            /\ StartInstallsMap
            /\ opened' = Append(opened, TimeNow)
            /\ ret' = Return(g, "Start", "nil", 0)
    /\ Unlock
    /\ pc' = [pc EXCEPT ![g] = "idle"]
    /\ UNCHANGED <<procMappings, app, size, stack, sizeBucketPower, ts, snap,
                   calls, log, profiles, stopSeen, invWin, builder, powInput, power>>

\* ---- Stop

StopCall(g) ==
    /\ CanCall(g)
    /\ calls.Stop < app.Stop
    /\ calls' = [calls EXCEPT !.Stop = @ + 1]
    /\ stopSeen' = [stopSeen EXCEPT ![g] = log]
    /\ pc' = [pc EXCEPT ![g] = "Stop:Lock"]
    /\ ret' = NoReturn
    /\ UNCHANGED <<mu, startTime, samples, heap, now, procMappings, app, size, stack,
                   sizeBucketPower, ts, snap, opened, log, profiles, invWin,
                   builder, powInput, power>>

StopLock(g) == Lock(g, "Stop:Lock", "Stop:Locked")

\* Stop's test "p.startTime == 0".
StopNotStarted == startTime = 0

\* Mutant: Stop leaves startTime as it is.
StopKeepsStartTime == startTime' = startTime

\* Stop's "p.startTime = 0".
StopClearsStartTime == startTime' = 0

\* Mutant: Stop returns its error with the lock held.
StopNotStartedKeepsLock == mu' = mu

\* Stop's "p.mu.Unlock()" before it returns the not-started error.
StopNotStartedUnlock == mu' = 0

\* Stop between Lock and Unlock.
StopLocked(g) ==
    /\ pc[g] = "Stop:Locked"
    /\ IF StopNotStarted
       THEN /\ StopNotStartedUnlock
            /\ ret' = Return(g, "Stop", "profiler not started", 0)
            /\ pc' = [pc EXCEPT ![g] = "idle"]
            /\ stopSeen' = [stopSeen EXCEPT ![g] = EmptyBag]
            /\ UNCHANGED <<startTime, ts, snap>>
       ELSE /\ ts' = [ts EXCEPT ![g] = startTime]
            /\ snap' = [snap EXCEPT ![g] = samples]
            /\ StopClearsStartTime
            /\ pc' = [pc EXCEPT ![g] = "Stop:Build"]
            /\ Unlock
            /\ ret' = NoReturn
            /\ UNCHANGED stopSeen
    /\ UNCHANGED <<samples, heap, now, procMappings, app, size, stack, sizeBucketPower,
                   calls, opened, log, profiles, invWin, builder, powInput, power>>

\* Stop after Unlock: the duration, the builder, build, and the return.
StopBuild(g) ==
    /\ pc[g] = "Stop:Build"
    /\ now' = TimeNow
    /\ \E order \in Orders(DOMAIN Deref(heap, snap[g])) :
          LET duration == TimeNow - ts[g]
              b == newProfileBuilder(ts[g], duration, procMappings)
          IN  profiles' = Append(profiles,
                [win |-> WindowOf(ts[g]), seen |-> stopSeen[g],
                 map |-> snap[g], order |-> order,
                 prof |-> build(b, Deref(heap, snap[g]), order)])
    /\ ret' = Return(g, "Stop", "nil", Len(profiles) + 1)
    /\ pc' = [pc EXCEPT ![g] = "idle"]
    /\ ts' = [ts EXCEPT ![g] = 0]
    /\ snap' = [snap EXCEPT ![g] = 0]
    /\ stopSeen' = [stopSeen EXCEPT ![g] = EmptyBag]
    /\ UNCHANGED <<mu, startTime, samples, heap, procMappings, app, size, stack,
                   sizeBucketPower, calls, opened, log, invWin, builder, powInput, power>>

\* ---- recordSample

\* The call, up to p.mu.Lock(): the bucket is computed outside the lock.
RecordCall(g) ==
    /\ CanCall(g)
    /\ calls.recordSample < app.recordSample
    /\ calls' = [calls EXCEPT !.recordSample = @ + 1]
    /\ \E r \in app.reads :
          /\ stack' = [stack EXCEPT ![g] = r[1]]
          /\ size' = [size EXCEPT ![g] = r[2]]
          /\ sizeBucketPower' = [sizeBucketPower EXCEPT ![g] = nextPowerOfTwo(r[2])]
    /\ invWin' = [invWin EXCEPT ![g] = Window]
    /\ pc' = [pc EXCEPT ![g] = "recordSample:Lock"]
    /\ ret' = NoReturn
    /\ UNCHANGED <<mu, startTime, samples, heap, now, procMappings, app, ts, snap,
                   opened, log, profiles, stopSeen, builder, powInput, power>>

RecordLock(g) == Lock(g, "recordSample:Lock", "recordSample:Locked")

\* Mutant: recordSample does not test startTime.
RecordNotStartedIgnored == samples = 0

\* recordSample's test "p.startTime == 0".
RecordNotStarted == startTime = 0

\* Mutant: the updated pair is not written back to the map.
RecordDropsUpdate(m, k, sz) == m

\* Mutant: the map entry is overwritten, not accumulated.
RecordOverwrites(m, k, sz) == Store(m, k, <<W(1), sz>>)

\* recordSample's update of the map: sample := m[k]; sample[0]++;
\* sample[1] += size; m[k] = sample.
RecordUpdate(m, k, sz) ==
    LET sample == Lookup(m, k)
    IN  Store(m, k, <<Add(sample[1], W(1)), Add(sample[2], sz)>>)

\* recordSample's body, with the deferred Unlock.
RecordLocked(g) ==
    /\ pc[g] = "recordSample:Locked"
    /\ IF RecordNotStarted
       THEN UNCHANGED heap
       ELSE LET k == sampleKey(stack[g], sizeBucketPower[g])
            IN  heap' = [heap EXCEPT ![samples] = RecordUpdate(@, k, size[g])]
    /\ log' = log (+) SetToBag({
            [inv |-> invWin[g], win |-> Window, stack |-> stack[g], size |-> size[g],
             overlap |-> \E h \in Procs \ {g} : pc[h] = "recordSample:Lock"]})
    /\ ret' = Return(g, "recordSample", "nil", 0)
    /\ Unlock
    /\ pc' = [pc EXCEPT ![g] = "idle"]
    /\ size' = [size EXCEPT ![g] = {}]
    /\ stack' = [stack EXCEPT ![g] = <<>>]
    /\ sizeBucketPower' = [sizeBucketPower EXCEPT ![g] = 0]
    /\ invWin' = [invWin EXCEPT ![g] = 0]
    /\ UNCHANGED <<startTime, samples, now, procMappings, app, ts, snap, calls, opened,
                   profiles, stopSeen, builder, powInput, power>>

Next ==
    \/ \E g \in Procs : StartCall(g)
    \/ \E g \in Procs : StartLock(g)
    \/ \E g \in Procs : StartLocked(g)
    \/ \E g \in Procs : StopCall(g)
    \/ \E g \in Procs : StopLock(g)
    \/ \E g \in Procs : StopLocked(g)
    \/ \E g \in Procs : StopBuild(g)
    \/ \E g \in Procs : RecordCall(g)
    \/ \E g \in Procs : RecordLock(g)
    \/ \E g \in Procs : RecordLocked(g)

Spec == Init /\ [][Next]_vars

\* Scheduling: a goroutine that can run its next step does so in the end,
\* and sync.Mutex hands the lock to a goroutine that keeps waiting for it.
Fairness ==
    \A g \in Procs :
        /\ WF_vars(StartLocked(g) \/ StopLocked(g) \/ StopBuild(g) \/ RecordLocked(g))
        /\ SF_vars(StartLock(g) \/ StopLock(g) \/ RecordLock(g))

\* A program that makes few enough calls for every path through them to be
\* followed to its end: Start's two returns, Stop's two, recordSample's two.
LiveApp ==
    [Start |-> 2, Stop |-> 1, recordSample |-> 1, reads |-> {<<StackA, W(4096)>>}]

InitLive ==
    /\ Fresh
    /\ app = LiveApp
    /\ procMappings = <<TextMapping>>
    /\ powInput = {}
    /\ power = NoResult

SpecLive == InitLive /\ [][Next]_vars /\ Fairness

----------------------------------------------------------------------------
\* The bucketing specification: nextPowerOfTwo applied to one input.

NoApp == [Start |-> 0, Stop |-> 0, recordSample |-> 0, reads |-> {}]

InitPow ==
    /\ Fresh
    /\ app = NoApp
    /\ procMappings = <<>>
    /\ powInput \in PowInputs
    /\ power = NoResult

CallNextPowerOfTwo ==
    /\ power = NoResult
    /\ power' = <<nextPowerOfTwo(powInput)>>
    /\ UNCHANGED <<mu, startTime, samples, heap, now, procMappings, pc, size, stack,
                   sizeBucketPower, ts, snap, ret, app, calls, opened, log, profiles,
                   stopSeen, invWin, builder,
                   powInput>>

NextPow == CallNextPowerOfTwo

SpecPow == InitPow /\ [][NextPow]_vars

----------------------------------------------------------------------------
\* The builder specification: Stop has left its critical section with some
\* sample map in hand, the process has some mappings, and Stop builds.

MaxKeys == 2

\* Addresses: in and around the mappings below, and in the upper half of
\* the address space.
BuildStacks ==
    {<<>>, <<W(16)>>, <<W(16), W(32)>>, <<W(32), W(16)>>, <<W(31), W(40), W(16)>>,
     <<{63}, W(8)>>}

BuildKeys ==
    {sampleKey(st, 12) : st \in BuildStacks}
    \cup {sampleKey(<<W(16), W(32)>>, b) : b \in {0, 13, 63}}

\* The pair recordSample leaves under key k after one read of the largest
\* size of k's bucket.
OneRead(k) == <<W(1), IF k.sizeBucketPower = 63 THEN 0..62 ELSE {k.sizeBucketPower}>>

BuildSampleMaps ==
    {[k \in K |-> OneRead(k)] : K \in {K \in SUBSET BuildKeys : Cardinality(K) <= MaxKeys}}

LibMapping == [lo |-> W(24), hi |-> W(40), offset |-> W(8), file |-> "lib", buildID |-> "b1"]
BuildMappingTables ==
    {<<>>, <<TextMapping>>, <<TextMapping, LibMapping>>, <<LibMapping, TextMapping>>,
     <<TextMapping, [TextMapping EXCEPT !.lo = W(40), !.hi = W(48)]>>}

InitBuild ==
    /\ mu = 0
    /\ startTime = 0
    /\ samples = 1
    /\ heap \in {<<m>> : m \in BuildSampleMaps}
    /\ now = 1
    /\ procMappings \in BuildMappingTables
    /\ pc = [p \in Procs |-> IF p = 1 THEN "Stop:Build" ELSE "idle"]
    /\ size = [p \in Procs |-> {}]
    /\ stack = [p \in Procs |-> <<>>]
    /\ sizeBucketPower = [p \in Procs |-> 0]
    /\ ts = [p \in Procs |-> IF p = 1 THEN 1 ELSE 0]
    /\ snap = [p \in Procs |-> IF p = 1 THEN 1 ELSE 0]
    /\ ret = NoReturn
    /\ app = NoApp
    /\ calls = [Start |-> 1, Stop |-> 1, recordSample |-> 0]
    /\ opened = <<1>>
    /\ log = EmptyBag
    /\ profiles = <<>>
    /\ stopSeen = [p \in Procs |-> EmptyBag]
    /\ invWin = [p \in Procs |-> 0]
    /\ builder = <<>>
    /\ powInput = {}
    /\ power = NoResult

NextBuild == \E g \in Procs : StopBuild(g)

SpecBuild == InitBuild /\ [][NextBuild]_vars

----------------------------------------------------------------------------
\* The builder specification, step by step: Stop has left its critical
\* section and newProfileBuilder has made the profile literal; the
\* platform's readMapping hands mappings to addMapping one at a time, or
\* adds the synthetic mapping when it knows none; then Stop calls build.

MaxMappings == 2

TextMappingHigh == [TextMapping EXCEPT !.lo = W(40), !.hi = W(48)]

\* Mappings the platform may hand to addMapping: two that overlap, and two
\* that share a file name and have an empty build id.
MappingInputs == {TextMapping, LibMapping, TextMappingHigh}

InitBuilder ==
    /\ mu = 0
    /\ startTime = 0
    /\ samples = 1
    /\ heap \in {<<m>> : m \in BuildSampleMaps}
    /\ now = 2
    /\ procMappings = <<>>
    /\ pc = [p \in Procs |-> IF p = 1 THEN "Stop:readMapping" ELSE "idle"]
    /\ size = [p \in Procs |-> {}]
    /\ stack = [p \in Procs |-> <<>>]
    /\ sizeBucketPower = [p \in Procs |-> 0]
    /\ ts = [p \in Procs |-> IF p = 1 THEN 1 ELSE 0]
    /\ snap = [p \in Procs |-> IF p = 1 THEN 1 ELSE 0]
    /\ ret = NoReturn
    /\ app = NoApp
    /\ calls = [Start |-> 1, Stop |-> 1, recordSample |-> 0]
    /\ opened = <<1>>
    /\ log = EmptyBag
    /\ profiles = <<>>
    /\ stopSeen = [p \in Procs |-> EmptyBag]
    /\ invWin = [p \in Procs |-> 0]
    /\ builder = <<newProfile(1, 1)>>
    /\ powInput = {}
    /\ power = NoResult

\* One call b.addMapping(lo, hi, offset, file, buildID).
AddMappingCall(g) ==
    /\ pc[g] = "Stop:readMapping"
    /\ Len(builder[1].Mapping) < MaxMappings
    /\ \E mp \in MappingInputs :
          /\ builder' = <<addMapping(builder[1], mp.lo, mp.hi, mp.offset, mp.file, mp.buildID)>>
          /\ procMappings' = Append(procMappings, mp)
    /\ ret' = NoReturn
    /\ UNCHANGED <<mu, startTime, samples, heap, now, pc, size, stack, sizeBucketPower,
                   ts, snap, app, calls, opened, log, profiles, stopSeen, invWin,
                   powInput, power>>

\* The call b.addMappingEntry(0, 0, 0, "", "", true), made when no mapping
\* is known; readMapping is over after it.
AddFakeMappingCall(g) ==
    /\ pc[g] = "Stop:readMapping"
    /\ Len(builder[1].Mapping) = 0
    /\ builder' = <<addMappingEntry(builder[1], {}, {}, {}, "", "", TRUE)>>
    /\ pc' = [pc EXCEPT ![g] = "Stop:build"]
    /\ ret' = NoReturn
    /\ UNCHANGED <<mu, startTime, samples, heap, now, procMappings, size, stack,
                   sizeBucketPower, ts, snap, app, calls, opened, log, profiles,
                   stopSeen, invWin, powInput, power>>

\* "return b.build(samples), nil", once readMapping has added a mapping.
BuildCall(g) ==
    /\ \/ pc[g] = "Stop:build"
       \/ pc[g] = "Stop:readMapping" /\ Len(builder[1].Mapping) >= 1
    /\ \E order \in Orders(DOMAIN Deref(heap, snap[g])) :
          /\ builder' = <<build(builder[1], Deref(heap, snap[g]), order)>>
          /\ profiles' = Append(profiles,
                [win |-> WindowOf(ts[g]), seen |-> stopSeen[g],
                 map |-> snap[g], order |-> order,
                 prof |-> build(builder[1], Deref(heap, snap[g]), order)])
    /\ ret' = Return(g, "Stop", "nil", Len(profiles) + 1)
    /\ pc' = [pc EXCEPT ![g] = "idle"]
    /\ ts' = [ts EXCEPT ![g] = 0]
    /\ snap' = [snap EXCEPT ![g] = 0]
    /\ UNCHANGED <<mu, startTime, samples, heap, now, procMappings, size, stack,
                   sizeBucketPower, app, calls, opened, log, stopSeen, invWin,
                   powInput, power>>

NextBuilder ==
    \E g \in Procs :
        \/ AddMappingCall(g)
        \/ AddFakeMappingCall(g)
        \/ BuildCall(g)

SpecBuilder == InitBuilder /\ [][NextBuilder]_vars

----------------------------------------------------------------------------
\* Reading the history and the returned profiles.

\* s <= 2^b, for a non-negative word s.
LeqPow2(s, b) == \A j \in s : j < b \/ s = {b}

\* The size bucket of a read of s bytes: the least b with 2^b >= s.
Bucket(s) == CHOOSE b \in 0..63 : LeqPow2(s, b) /\ \A c \in 0..(b - 1) : ~LeqPow2(s, c)

\* The number a small non-negative word stands for.
RECURSIVE Val(_)
Val(w) == IF w = {} THEN 0 ELSE LET j == CHOOSE x \in w : TRUE IN 2^j + Val(w \ {j})

\* The recorded calls that held the lock while window w was open, made from
\* stack st with a size of bucket b.
Landed(w, st, b) ==
    {e \in BagToSet(log) : e.win = w /\ e.stack = st /\ Bucket(e.size) = b}

\* How many calls the entries E of bag B stand for, and the bytes they read.
RECURSIVE Calls(_, _)
Calls(E, B) ==
    IF E = {} THEN 0
    ELSE LET e == CHOOSE x \in E : TRUE IN CopiesIn(e, B) + Calls(E \ {e}, B)

RECURSIVE BytesRead(_, _)
BytesRead(E, B) ==
    IF E = {} THEN 0
    ELSE LET e == CHOOSE x \in E : TRUE
         IN  CopiesIn(e, B) * Val(e.size) + BytesRead(E \ {e}, B)

\* The address of location id of profile p.
AddressOf(p, id) == (CHOOSE l \in {p.Location[n] : n \in DOMAIN p.Location} : l.Id = id).Address

NonZero(a) == a # {}

\* The stack sample i of profile p stands for: the addresses its location
\* ids resolve to, the zero address left out.
SampleStack(p, i) ==
    SelectSeq([j \in DOMAIN p.Sample[i].LocationIndex |->
                  AddressOf(p, p.Sample[i].LocationIndex[j])], NonZero)

\* The samples of profile p for stack st and size bucket b.
SamplesFor(p, st, b) ==
    {i \in DOMAIN p.Sample : SampleStack(p, i) = st /\ p.Sample[i].Label[1].Num = {b}}

\* Sample i of p has these values.
HasValues(p, i, count, bytes) ==
    Val(p.Sample[i].Value[1]) = count /\ Val(p.Sample[i].Value[2]) = bytes

ReadStacks == {r[1] : r \in app.reads}
ReadBuckets == {Bucket(r[2]) : r \in app.reads}

\* The profile of P holds, for stack st and bucket b, exactly what the
\* calls that landed in its window add up to.
SampleExact(P, st, b) ==
    LET E == Landed(P.win, st, b)
        S == SamplesFor(P.prof, st, b)
    IN  IF E = {} THEN S = {}
        ELSE /\ Cardinality(S) = 1
             /\ \A i \in S : HasValues(P.prof, i, Calls(E, log), BytesRead(E, log))

Returned == {profiles[n] : n \in DOMAIN profiles}

----------------------------------------------------------------------------
\* The claims.

\* C1: N >= 1 record calls of size 4096 from one stack, all made while a
\* window is open and returned before its Stop, and no other call of that
\* stack and bucket in the window: the profile of that Stop has exactly one
\* sample for the stack and bucket 12, with values [N, 4096 * N].
C1_ConcurrentRecordsAggregate ==
    \A P \in Returned : \A st \in ReadStacks :
        LET E == {e \in BagToSet(P.seen) :
                    e.inv = P.win /\ e.stack = st /\ e.size = W(4096)}
            N == Calls(E, P.seen)
        IN  (N >= 1 /\ Calls(Landed(P.win, st, 12), log) = N)
            => /\ Cardinality(SamplesFor(P.prof, st, 12)) = 1
               /\ \A i \in SamplesFor(P.prof, st, 12) :
                     HasValues(P.prof, i, N, 4096 * N)

\* Two calls of size 4096 from one stack overlapped in a window, and the
\* profile of the window counts [2, 8192] for them.
C1_Witness ==
    \E P \in Returned : \E st \in ReadStacks :
        /\ \E e \in BagToSet(P.seen) :
              e.inv = P.win /\ e.stack = st /\ e.size = W(4096) /\ e.overlap
        /\ Calls(Landed(P.win, st, 12), P.seen) = 2
        /\ \E i \in SamplesFor(P.prof, st, 12) : HasValues(P.prof, i, 2, 8192)

\* C2: a record call made while a window was open that returned before the
\* Stop closing that window began is in the profile of that Stop: it landed
\* in that window, and the one sample of its stack and bucket counts every
\* call that landed there once, and sums their sizes.
C2_ReturnedBeforeStopIncluded ==
    \A P \in Returned : \A e \in BagToSet(P.seen) :
        e.inv = P.win
        => /\ e.win = P.win
           /\ LET E == Landed(P.win, e.stack, Bucket(e.size))
                   S == SamplesFor(P.prof, e.stack, Bucket(e.size))
               IN  /\ e \in E
                   /\ Calls(E, log) >= Calls(E, P.seen)
                   /\ Cardinality(S) = 1
                   /\ \A i \in S : HasValues(P.prof, i, Calls(E, log), BytesRead(E, log))

C2_Witness ==
    \E P \in Returned : \E e \in BagToSet(P.seen) :
        /\ e.inv = P.win
        /\ CopiesIn(e, P.seen) = 2
        /\ \E i \in SamplesFor(P.prof, e.stack, Bucket(e.size)) :
              HasValues(P.prof, i, 2, 2 * Val(e.size))

\* C3 as stated: a record call made while a window was open lands in that
\* window or in the next one, and is counted there.
C3_RacingRecordNeverLost ==
    /\ \A e \in BagToSet(log) : e.inv # 0 => e.win \in {e.inv, e.inv + 1}
    /\ \A P \in Returned : \A st \in ReadStacks, b \in ReadBuckets : SampleExact(P, st, b)

\* C3 amended: a record call is counted in the profile of the window open
\* while it holds the lock, if any, and in no other profile: a call made
\* while a window was open lands in that window, in a later one, or, when
\* the profiler is off as it takes the lock, in none; no two profiles are of
\* the same window, and each profile holds exactly the calls that landed in
\* its window.
C3_RacingRecordCountedAtMostOnce ==
    /\ \A e \in BagToSet(log) : e.inv # 0 => e.win = 0 \/ e.win >= e.inv
    /\ \A m, n \in DOMAIN profiles : profiles[m].win = profiles[n].win => m = n
    /\ \A P \in Returned : \A st \in ReadStacks, b \in ReadBuckets : SampleExact(P, st, b)

\* One call made in window 1 was dropped, another landed in window 2, and
\* both windows' profiles are out.
C3_Witness ==
    /\ \E e \in BagToSet(log) : e.inv = 1 /\ e.win = 0
    /\ \E e \in BagToSet(log) : e.inv = 1 /\ e.win = 2
    /\ Len(profiles) = 2

\* C4: Start with a window open returns the already-started error and
\* changes neither startTime, nor the map installed, nor any counter.
C4_StartWhileRunning ==
    [][\A g \in Procs :
         (pc[g] = "Start:Locked" /\ pc'[g] = "idle" /\ startTime # 0)
         => /\ ret' = Return(g, "Start", "profiler already started", 0)
            /\ startTime' = startTime
            /\ samples' = samples
            /\ heap' = heap]_vars

\* A Start has just failed on a window that holds counters.
C4_Witness ==
    /\ ret.op = "Start"
    /\ ret.err = "profiler already started"
    /\ startTime # 0
    /\ DOMAIN heap[samples] # {}

\* Each window has at most one Stop past the not-started test.
StopsMatched ==
    LET closed == [n \in DOMAIN profiles |-> profiles[n].win]
        closing == {g \in Procs : pc[g] = "Stop:Build"}
    IN  /\ \A m, n \in DOMAIN closed : closed[m] = closed[n] => m = n
        /\ \A g, h \in closing : ts[g] = ts[h] => g = h
        /\ \A g \in closing : \A n \in DOMAIN closed : closed[n] # WindowOf(ts[g])

\* C5: Stop with no window open returns the not-started error and no
\* profile, and changes nothing of the accumulator; and each Start is
\* matched by at most one successful Stop.
C5_StopWhileNotRunning ==
    [][/\ \A g \in Procs :
            (pc[g] = "Stop:Locked" /\ pc'[g] # "Stop:Locked" /\ startTime = 0)
            => /\ ret' = Return(g, "Stop", "profiler not started", 0)
               /\ pc'[g] = "idle"
               /\ profiles' = profiles
               /\ startTime' = startTime
               /\ samples' = samples
               /\ heap' = heap
       /\ StopsMatched']_vars

\* A second Stop has just failed after a Stop that returned a profile.
C5_Witness ==
    /\ ret.op = "Stop"
    /\ ret.err = "profiler not started"
    /\ Len(profiles) >= 1

\* C6: recordSample with no window open returns (it has no error to
\* return) and changes nothing: no counter, nor startTime, nor the map.
C6_RecordWhileNotRunning ==
    [][\A g \in Procs :
         (pc[g] = "recordSample:Locked" /\ pc'[g] = "idle" /\ startTime = 0)
         => /\ ret' = Return(g, "recordSample", "nil", 0)
            /\ startTime' = 0
            /\ samples' = samples
            /\ heap' = heap]_vars

\* A call has returned with the profiler off, after a window that counted.
C6_Witness ==
    /\ ret.op = "recordSample"
    /\ startTime = 0
    /\ samples # 0
    /\ DOMAIN heap[samples] # {}
    /\ \E e \in BagToSet(log) : e.win = 0

\* C7: the profile of a window opened after an earlier Stop holds a sample
\* for exactly the stacks and buckets of the calls that landed in that
\* window, with their counts and sums, and nothing of an earlier window.
C7_NoCarryOver ==
    \A P \in Returned :
        P.win >= 2
        => /\ \A i \in DOMAIN P.prof.Sample :
                 \E st \in ReadStacks, b \in ReadBuckets :
                    /\ i \in SamplesFor(P.prof, st, b)
                    /\ Landed(P.win, st, b) # {}
                    /\ HasValues(P.prof, i, Calls(Landed(P.win, st, b), log),
                                 BytesRead(Landed(P.win, st, b), log))
           /\ Len(P.prof.Sample) =
                 Cardinality({k \in ReadStacks \X ReadBuckets : Landed(P.win, k[1], k[2]) # {}})

\* The same read was made in window 1 and in window 2, and the profile of
\* window 2 counts it once.
C7_Witness ==
    \E P \in Returned : \E e1, e2 \in BagToSet(log) :
        /\ P.win = 2
        /\ e1.win = 1 /\ e2.win = 2
        /\ e1.stack = e2.stack /\ e1.size = e2.size
        /\ Len(P.prof.Sample) = 1
        /\ HasValues(P.prof, 1, 1, Val(e2.size))

\* C8, as stated: in one window, a call of size 100 and a call of size 200
\* from one stack make a single sample of bucket 8 with values [2, 300].
C8_Sizes100And200Merge ==
    \A P \in Returned : \A st \in ReadStacks :
        LET n(sz) == Calls({e \in BagToSet(log) :
                              e.win = P.win /\ e.stack = st /\ e.size = W(sz)}, log)
            merged == SamplesFor(P.prof, st, 8)
        IN  (n(100) = 1 /\ n(200) = 1)
            => /\ Cardinality(merged) = 1
               /\ \A i \in merged : HasValues(P.prof, i, 2, 300)

\* C8, amended: in one window, the calls of size 100 from one stack make a
\* sample of bucket 7, the calls of size 200 from that stack make another,
\* of bucket 8, and the calls of size 5000 make a third, of bucket 13; the
\* calls of one size are merged in one sample, which carries their count
\* and their byte sum.
C8_BucketsMergeAndSeparate ==
    \A P \in Returned : \A st \in ReadStacks :
        LET n(sz) == Calls({e \in BagToSet(log) :
                              e.win = P.win /\ e.stack = st /\ e.size = W(sz)}, log)
            one(b, count, bytes) ==
                IF count = 0
                THEN SamplesFor(P.prof, st, b) = {}
                ELSE /\ Cardinality(SamplesFor(P.prof, st, b)) = 1
                     /\ \A i \in SamplesFor(P.prof, st, b) :
                           HasValues(P.prof, i, count, bytes)
        IN  (\A e \in BagToSet(log) :
                (e.win = P.win /\ e.stack = st)
                => e.size \in {W(100), W(200), W(5000)})
            => /\ one(7, n(100), 100 * n(100))
               /\ one(8, n(200), 200 * n(200))
               /\ one(13, n(5000), 5000 * n(5000))

\* Sizes 100, 200 and 5000 were each read once from one stack in one
\* window, and the profile holds three samples: 100 in bucket 7, 200 in
\* bucket 8 and 5000 in bucket 13.
C8_Witness ==
    \E P \in Returned : \E st \in ReadStacks :
        /\ Len(P.prof.Sample) = 3
        /\ \E i \in SamplesFor(P.prof, st, 7) : HasValues(P.prof, i, 1, 100)
        /\ \E i \in SamplesFor(P.prof, st, 8) : HasValues(P.prof, i, 1, 200)
        /\ \E i \in SamplesFor(P.prof, st, 13) : HasValues(P.prof, i, 1, 5000)

\* C9: for a size s >= 1 the exponent b returned is the least with
\* 2^b >= s (2^b >= s, and 2^(b-1) < s when b >= 1); sizes 0 and 1 give 0;
\* 1, 2, 4, 14, 31 give 0, 1, 2, 4, 5; the result is at most 63.
C9_BucketExponent ==
    power # NoResult
    => LET b == power[1]
       IN  /\ b \in 0..63
           /\ (powInput # {} /\ 63 \notin powInput)
              => /\ LeqPow2(powInput, b)
                 /\ b >= 1 => ~LeqPow2(powInput, b - 1)
           /\ powInput \in {W(0), W(1)} => b = 0
           /\ \A c \in {<<1, 0>>, <<2, 1>>, <<4, 2>>, <<14, 4>>, <<31, 5>>} :
                 powInput = W(c[1]) => b = c[2]

\* A size above 2^62, for which the loop runs out: the result is 63.
C9_Witness ==
    /\ power = <<63>>
    /\ 62 \in powInput
    /\ 63 \notin powInput

\* The ids of a table.
Ids(table) == {table[n].Id : n \in DOMAIN table}

\* C10: in a built profile every location id of a sample is the id of a
\* location, every mapping id of a location is 0 or the id of a mapping,
\* and every string index of a mapping, label or value type is an index of
\* the string table.
C10_ReferencesValid ==
    \A P \in Returned :
        LET p == P.prof
            strings == 0..(Len(p.StringTable) - 1)
        IN  /\ \A i \in DOMAIN p.Sample :
                  /\ \A j \in DOMAIN p.Sample[i].LocationIndex :
                        p.Sample[i].LocationIndex[j] \in Ids(p.Location)
                  /\ \A j \in DOMAIN p.Sample[i].Label :
                        p.Sample[i].Label[j].Key \in strings
            /\ \A n \in DOMAIN p.Location :
                  p.Location[n].MappingIndex \in {0} \cup Ids(p.Mapping)
            /\ \A n \in DOMAIN p.Mapping :
                  p.Mapping[n].Filename \in strings /\ p.Mapping[n].BuildId \in strings
            /\ \A t \in {p.PeriodType} \cup {p.SampleType[n] : n \in DOMAIN p.SampleType} :
                  t.Type \in strings /\ t.Unit \in strings

\* A profile of two samples over two real mappings, with a location inside
\* a mapping and a location outside every mapping.
C10_Witness ==
    \E P \in Returned :
        /\ Len(P.prof.Sample) = 2
        /\ Len(P.prof.Mapping) = 2
        /\ \E n \in DOMAIN P.prof.Mapping : P.prof.Mapping[n].BuildId = Len(P.prof.StringTable) - 1
        /\ \E n \in DOMAIN P.prof.Location : P.prof.Location[n].MappingIndex = 0
        /\ \E n \in DOMAIN P.prof.Location : P.prof.Location[n].MappingIndex = 2

----------------------------------------------------------------------------
\* The builder, step by step.

Reserved == <<"", "reads", "count", "read", "bytes">>

\* The sample map profile P was built from.
MapOf(P) == Deref(heap, P.map)

\* The file name and the build id of each mapping handed to addMapping.
RECURSIVE MappingStrings(_)
MappingStrings(found) ==
    IF found = <<>> THEN <<>>
    ELSE <<found[1].file, found[1].buildID>> \o MappingStrings(Tail(found))

\* C11, as stated: a profile built from an empty sample map has no sample,
\* no location, and a string table of the five reserved entries only,
\* whatever mappings were added.
C11_EmptyMapFiveStrings ==
    \A P \in Returned :
        DOMAIN MapOf(P) = {}
        => /\ P.prof.Sample = <<>>
           /\ P.prof.Location = <<>>
           /\ P.prof.StringTable = Reserved

\* C11, amended: a profile built from an empty sample map has no sample
\* and no location; its string table is the five reserved entries followed
\* by the file name and the build id of every mapping handed to addMapping,
\* in order, which the mapping's Filename and BuildId index; only the
\* synthetic mapping adds no string.
C11_EmptyMapProfile ==
    \A P \in Returned :
        DOMAIN MapOf(P) = {}
        => /\ P.prof.Sample = <<>>
           /\ P.prof.Location = <<>>
           /\ P.prof.StringTable = Reserved \o MappingStrings(procMappings)
           /\ \A n \in DOMAIN procMappings :
                 /\ P.prof.StringTable[P.prof.Mapping[n].Filename + 1] = procMappings[n].file
                 /\ P.prof.StringTable[P.prof.Mapping[n].BuildId + 1] = procMappings[n].buildID
                 /\ P.prof.Mapping[n].Filename = 5 + 2 * (n - 1)
                 /\ P.prof.Mapping[n].BuildId = 6 + 2 * (n - 1)
           /\ procMappings = <<>> => P.prof.StringTable = Reserved

\* A profile built from an empty sample map after two addMapping calls:
\* nine strings.
C11_Witness ==
    \E P \in Returned :
        /\ DOMAIN MapOf(P) = {}
        /\ Len(P.prof.Mapping) = 2
        /\ Len(P.prof.StringTable) = 9
        /\ P.prof.Sample = <<>>

\* The key sample i of profile P was built from.
KeyOf(P, i) == P.order[i]

\* C12, as stated: the location list of a sample has exactly numLocations
\* entries, the addresses of the first numLocations slots of its key in
\* order, and the zero-filled tail slots give no location id and no entry
\* of the location table.
C12_OnlyCapturedSlots ==
    \A P \in Returned :
        /\ \A i \in DOMAIN P.prof.Sample :
              LET k == KeyOf(P, i)
                  L == P.prof.Sample[i].LocationIndex
              IN  /\ Len(L) = k.numLocations
                  /\ \A j \in 1..k.numLocations :
                        j \in DOMAIN L /\ AddressOf(P.prof, L[j]) = k.locations[j]
        /\ \A n \in DOMAIN P.prof.Location :
              \E i \in DOMAIN P.order : \E j \in 1..KeyOf(P, i).numLocations :
                 P.prof.Location[n].Address = KeyOf(P, i).locations[j]

\* The values of the samples of profile P are the counters of its map.
ValuesAreCounters(P) ==
    /\ Len(P.prof.Sample) = Cardinality(DOMAIN MapOf(P))
    /\ \A i \in DOMAIN P.prof.Sample : P.prof.Sample[i].Value = MapOf(P)[KeyOf(P, i)]

\* C13: no step writes the map a Stop took under the lock, neither while
\* that Stop is still to build from it nor after it returned its profile;
\* so the values of a returned profile are the counters the map held when
\* startTime was cleared.
C13_SnapshotNeverWritten ==
    [][/\ \A g \in Procs :
             pc[g] = "Stop:Build" => heap'[snap[g]] = heap[snap[g]]
       /\ \A n \in DOMAIN profiles :
             heap'[profiles[n].map] = heap[profiles[n].map]
       /\ \A n \in DOMAIN profiles' : ValuesAreCounters(profiles[n])']_vars

\* A Stop has cleared startTime and is still to build from the map of
\* window 1, which holds counters, while a record call has already written
\* to the map of window 2.
C13_Witness ==
    \E g \in Procs :
        /\ pc[g] = "Stop:Build"
        /\ snap[g] = 1
        /\ samples = 2
        /\ DOMAIN heap[1] # {}
        /\ DOMAIN heap[2] # {}

\* C14, as stated: of two profiles of one profiler, the interval
\* [TimeNanos, TimeNanos + DurationNanos] of the earlier window ends no
\* later than the TimeNanos of the later window.
C14_WindowsDoNotOverlap ==
    \A P, Q \in Returned :
        P.prof.TimeNanos < Q.prof.TimeNanos
        => P.prof.TimeNanos + P.prof.DurationNanos <= Q.prof.TimeNanos

\* C15, as stated: after any sequence of addMapping calls, and in the
\* profile built, no string is in the string table twice.
C15_StringsUnique ==
    \A n \in DOMAIN builder :
        \A i, j \in DOMAIN builder[n].StringTable :
            builder[n].StringTable[i] = builder[n].StringTable[j] => i = j

\* The ids of the mappings of p whose range [MemoryStart, MemoryLimit)
\* contains address a.
Covering(p, a) ==
    {p.Mapping[m].Id : m \in {m \in DOMAIN p.Mapping :
                                /\ ULeq(p.Mapping[m].MemoryStart, a)
                                /\ ULess(a, p.Mapping[m].MemoryLimit)}}

\* The location of p with address a has mapping id id.
Resolves(p, a, id) ==
    \E n \in DOMAIN p.Location :
        p.Location[n].Address = a /\ p.Location[n].MappingIndex = id

\* C16: the mapping id of a location is the lowest id of a mapping whose
\* range [MemoryStart, MemoryLimit) contains its address, and 0 exactly
\* when no mapping contains it.
C16_LowestCoveringMapping ==
    \A P \in Returned : \A n \in DOMAIN P.prof.Location :
        LET loc == P.prof.Location[n]
            ids == Covering(P.prof, loc.Address)
        IN  /\ (loc.MappingIndex = 0) <=> (ids = {})
            /\ ids # {} => /\ loc.MappingIndex \in ids
                           /\ \A id \in ids : loc.MappingIndex <= id

\* Two overlapping mappings, [16, 32) with id 1 and [24, 40) with id 2:
\* 16 (a start) and 31 (in both) resolve to 1, 32 (the limit of the first)
\* to 2, and 40 (the limit of the second) to 0.
C16_Witness ==
    \E P \in Returned :
        /\ procMappings = <<TextMapping, LibMapping>>
        /\ Resolves(P.prof, W(16), 1)
        /\ Resolves(P.prof, W(31), 1)
        /\ Resolves(P.prof, W(32), 2)
        /\ Resolves(P.prof, W(40), 0)

\* The largest uint64.
MaxAddress == 0..63

\* C17, as stated: when no real mapping is known, the mapping table is the
\* single synthetic mapping, from 0 to the largest address, and every
\* location of the profile built has a nonzero mapping id.
C17_SyntheticMappingCoversAll ==
    \A P \in Returned :
        procMappings = <<>>
        => /\ Len(P.prof.Mapping) = 1
           /\ P.prof.Mapping[1].MemoryStart = {}
           /\ P.prof.Mapping[1].MemoryLimit = MaxAddress
           /\ \A n \in DOMAIN P.prof.Location : P.prof.Location[n].MappingIndex # 0

\* C18, as stated: a sample has exactly one label, its key is the index of
\* "bytes", and its value, a signed 64-bit number, is 2^sizeBucketPower:
\* positive, and at least the size of a read counted in the sample.
C18_LabelIsBucketSize ==
    \A P \in Returned : \A i \in DOMAIN P.prof.Sample :
        LET sample == P.prof.Sample[i]
            label == sample.Label[1]
        IN  /\ Len(sample.Label) = 1
            /\ P.prof.StringTable[label.Key + 1] = "bytes"
            /\ label.Num = {KeyOf(P, i).sizeBucketPower}
            /\ 63 \notin label.Num
            /\ sample.Value[1] = W(1) => SGeq(label.Num, sample.Value[2])

\* The addresses build's loops come across for profile P, in the order they
\* do: for each key in range order, the slots the inner loop visits.
RECURSIVE SeenFrom(_, _)
SeenFrom(P, i) ==
    IF i > Len(P.order) THEN <<>>
    ELSE [j \in visitedSlots(KeyOf(P, i)) |-> KeyOf(P, i).locations[j]] \o SeenFrom(P, i + 1)

\* seq without the repetitions of an element after its first occurrence.
RECURSIVE FirstSights(_)
FirstSights(seq) ==
    IF seq = <<>> THEN <<>>
    ELSE LET r == FirstSights(SubSeq(seq, 1, Len(seq) - 1))
             x == seq[Len(seq)]
         IN  IF \E n \in DOMAIN r : r[n] = x THEN r ELSE Append(r, x)

\* C19: the location table of a built profile has one entry per distinct
\* address build came across, in the order of first sight, with ids 1..n
\* in that order; and every sample refers to an address by the id of that
\* one entry, so that samples sharing an address share the id.
C19_AddressesDeduplicated ==
    \A P \in Returned :
        LET p == P.prof
        IN  /\ [n \in DOMAIN p.Location |-> p.Location[n].Address] = FirstSights(SeenFrom(P, 1))
            /\ \A n \in DOMAIN p.Location : p.Location[n].Id = n
            /\ \A m, n \in DOMAIN p.Location :
                  p.Location[m].Address = p.Location[n].Address => m = n
            /\ \A i \in DOMAIN p.Sample :
                  \A j \in DOMAIN p.Sample[i].LocationIndex :
                     /\ p.Sample[i].LocationIndex[j] \in DOMAIN p.Location
                     /\ p.Location[p.Sample[i].LocationIndex[j]].Address
                           = KeyOf(P, i).locations[j]

\* Two samples with different stacks that share the address 16, and refer
\* to it by one id.
C19_Witness ==
    \E P \in Returned :
        /\ Len(P.prof.Sample) = 2
        /\ P.prof.Sample[1].LocationIndex # P.prof.Sample[2].LocationIndex
        /\ \E j, k \in 1..StackCap :
              /\ KeyOf(P, 1).locations[j] = W(16)
              /\ KeyOf(P, 2).locations[k] = W(16)
              /\ P.prof.Sample[1].LocationIndex[j] = P.prof.Sample[2].LocationIndex[k]

\* The goroutines inside a critical section.
InCriticalSection ==
    {g \in Procs : pc[g] \in {"Start:Locked", "Stop:Locked", "recordSample:Locked"}}

\* C20: the lock is held by the one goroutine inside a critical section and
\* by nobody when none is, whichever path the last call took out of it; and
\* every call that has begun returns.
C20_LockReleasedAndCallsReturn ==
    /\ [](/\ Cardinality(InCriticalSection) <= 1
          /\ \A g \in InCriticalSection : mu = g
          /\ InCriticalSection = {} => mu = 0)
    /\ \A g \in Procs : (pc[g] # "idle") ~> (pc[g] = "idle")

\* A Stop has just returned its error while two other calls wait for the
\* lock, which is free.
C20_Witness ==
    /\ ret.op = "Stop"
    /\ ret.err = "profiler not started"
    /\ mu = 0
    /\ Cardinality({g \in Procs : pc[g] \in {"Start:Lock", "Stop:Lock", "recordSample:Lock"}}) = 2

====
